---- MODULE Spec2Model ----
(***************************************************************************)
(* Model of the DirectedGraph container of src/directed_graph.             *)
(*                                                                         *)
(* A graph is a record of its three members.  Vertices are keyed by the    *)
(* address of their heap storage (std::unordered_map<const Vertex*, ...>), *)
(* so the model keeps addresses: m_vertices maps the address of every live *)
(* vertex to the unique_ptr stored under it (the address it holds and the  *)
(* id of the Vertex there), m_edges maps an address to a set of addresses. *)
(* The                                                                     *)
(* caller keeps the handles addVertex returned (main.cpp: vs), and may     *)
(* keep using one after its vertex was removed; the allocator may then     *)
(* hand the freed address to a later vertex.  The payload m_data takes no  *)
(* part in any operation of the graph and is left out.                     *)
(***************************************************************************)
EXTENDS Integers, Sequences, FiniteSets, TLC

\* ------------------------------------------------------------------ bounds
NumAddr == 2        \* heap slots the allocator can place a Vertex in
MaxVertices == 2    \* addVertex calls

\* ------------------------------------------------------- addresses, orders
HeapAddr == 1 .. NumAddr
\* the address of a Vertex the caller constructed itself (public constructor)
ForeignAddr == 0
AllAddr == HeapAddr \cup {ForeignAddr}

\* iteration order of the unordered containers: the addresses in the order
\* their buckets are visited (it follows the hash of the pointer and is
\* unknown to the program); the containers that are iterated hold addresses
\* of live vertices only
HashOrders == {o \in [1 .. NumAddr -> HeapAddr] :
                 \A i, j \in 1 .. NumAddr : i /= j => o[i] /= o[j]}

\* the elements of container S in the iteration order o
Iterate(S, o) == SelectSeq(o, LAMBDA a : a \in S)

Range(s) == {s[i] : i \in DOMAIN s}

\* ------------------------------------------------------------------ Vertex
Digits == << "0", "1", "2", "3", "4", "5", "6", "7", "8", "9" >>

RECURSIVE to_string(_)
\* std::to_string of an unsigned value: its decimal digits
to_string(n) ==
    IF n < 10 THEN Digits[n + 1]
    ELSE to_string(n \div 10) \o Digits[(n % 10) + 1]

\* Vertex::toString of the vertex with this id
Vertex_toString(id) == "v" \o to_string(id)

\* --------------------------------------------------------- DirectedGraph
NoVertices == [a \in {} |-> [get |-> a, m_id |-> 0]]
NoEdges == [a \in {} |-> {}]

\* DirectedGraph::DirectedGraph
DirectedGraph == [m_vertexCounter |-> 0, m_vertices |-> NoVertices, m_edges |-> NoEdges]

\* m_vertices.find(&u) != m_vertices.end()
Owns(g, a) == a \in DOMAIN g.m_vertices

\* v->getID() through a pointer; the pointers the graph dereferences are
\* keys of m_vertices or members of a successor set
getID(g, a) == IF a \in DOMAIN g.m_vertices THEN g.m_vertices[a].m_id ELSE -1

\* m_edges[&u]: operator[] default-constructs a missing entry
EdgesIndex(edges, a) ==
    IF a \in DOMAIN edges THEN edges
    ELSE [k \in DOMAIN edges \cup {a} |-> IF k = a THEN {} ELSE edges[k]]

\* m_edges.erase(&u)
EdgesErase(edges, a) == [k \in DOMAIN edges \ {a} |-> edges[k]]

\* addVertex without m_vertexCounter++
addVertex_NoIncrement(g, p) ==
    [g   |-> [m_vertexCounter |-> g.m_vertexCounter,
              m_vertices |-> [k \in DOMAIN g.m_vertices \cup {p} |->
                                 IF k \in DOMAIN g.m_vertices THEN g.m_vertices[k]
                                 ELSE [get |-> p, m_id |-> g.m_vertexCounter]],
              m_edges |-> g.m_edges],
     ret |-> p]

\* DirectedGraph::addVertex; p is the storage make_unique obtained
addVertex(g, p) ==
    [g   |-> [m_vertexCounter |-> g.m_vertexCounter + 1,
              m_vertices |-> [k \in DOMAIN g.m_vertices \cup {p} |->
                                 IF k \in DOMAIN g.m_vertices THEN g.m_vertices[k]
                                 ELSE [get |-> p, m_id |-> g.m_vertexCounter]],
              m_edges |-> g.m_edges],
     ret |-> p]

\* addEdge that inserts and reports true without looking for the edge
addEdge_NoLookup(g, u, v) ==
    IF ~Owns(g, u) \/ ~Owns(g, v) THEN [g |-> g, ret |-> FALSE, abort |-> TRUE]
    ELSE LET e == EdgesIndex(g.m_edges, u)
         IN  [g |-> [g EXCEPT !.m_edges = [e EXCEPT ![u] = @ \cup {v}]],
              ret |-> TRUE, abort |-> FALSE]

\* addEdge that refuses an edge from a vertex to itself
addEdge_NoSelfLoop(g, u, v) ==
    IF ~Owns(g, u) \/ ~Owns(g, v) THEN [g |-> g, ret |-> FALSE, abort |-> TRUE]
    ELSE LET e == EdgesIndex(g.m_edges, u)
         IN  IF v \in e[u] \/ u = v
             THEN [g |-> [g EXCEPT !.m_edges = e], ret |-> FALSE, abort |-> FALSE]
             ELSE [g |-> [g EXCEPT !.m_edges = [e EXCEPT ![u] = @ \cup {v}]],
                   ret |-> TRUE, abort |-> FALSE]

\* DirectedGraph::addEdge; abort is a failed assert, which ends the program
\* before the call returns
addEdge(g, u, v) ==
    IF ~Owns(g, u) \/ ~Owns(g, v) THEN [g |-> g, ret |-> FALSE, abort |-> TRUE]
    ELSE LET e == EdgesIndex(g.m_edges, u)
         IN  IF v \in e[u]
             THEN [g |-> [g EXCEPT !.m_edges = e], ret |-> FALSE, abort |-> FALSE]
             ELSE [g |-> [g EXCEPT !.m_edges = [e EXCEPT ![u] = @ \cup {v}]],
                   ret |-> TRUE, abort |-> FALSE]

\* removeVertex without the loop that cleans the incoming edges
removeVertex_NoIncoming(g, u) ==
    IF Owns(g, u)
    THEN [g |-> [m_vertexCounter |-> g.m_vertexCounter,
                 m_vertices |-> [k \in DOMAIN g.m_vertices \ {u} |-> g.m_vertices[k]],
                 m_edges |-> EdgesErase(g.m_edges, u)],
          ret |-> TRUE]
    ELSE [g |-> g, ret |-> FALSE]

\* removeVertex without m_edges.erase(&u)
removeVertex_KeepOutgoing(g, u) ==
    IF Owns(g, u)
    THEN [g |-> [m_vertexCounter |-> g.m_vertexCounter,
                 m_vertices |-> [k \in DOMAIN g.m_vertices \ {u} |-> g.m_vertices[k]],
                 m_edges |-> [k \in DOMAIN g.m_edges |->
                                IF k = u THEN g.m_edges[k] ELSE g.m_edges[k] \ {u}]],
          ret |-> TRUE]
    ELSE [g |-> g, ret |-> FALSE]

\* removeVertex without m_vertices.erase(it)
removeVertex_KeepVertex(g, u) ==
    IF Owns(g, u)
    THEN LET e == EdgesErase(g.m_edges, u)
         IN  [g |-> [m_vertexCounter |-> g.m_vertexCounter,
                     m_vertices |-> g.m_vertices,
                     m_edges |-> [k \in DOMAIN e |-> e[k] \ {u}]],
              ret |-> TRUE]
    ELSE [g |-> g, ret |-> FALSE]

\* removeVertex that empties the adjacency map
removeVertex_DropEdges(g, u) ==
    IF Owns(g, u)
    THEN [g |-> [m_vertexCounter |-> g.m_vertexCounter,
                 m_vertices |-> [k \in DOMAIN g.m_vertices \ {u} |-> g.m_vertices[k]],
                 m_edges |-> NoEdges],
          ret |-> TRUE]
    ELSE [g |-> g, ret |-> FALSE]

\* removeVertex that takes the removed vertex off the counter
removeVertex_Decrement(g, u) ==
    IF Owns(g, u)
    THEN LET e == EdgesErase(g.m_edges, u)
         IN  [g |-> [m_vertexCounter |-> g.m_vertexCounter - 1,
                     m_vertices |-> [k \in DOMAIN g.m_vertices \ {u} |-> g.m_vertices[k]],
                     m_edges |-> [k \in DOMAIN e |-> e[k] \ {u}]],
              ret |-> TRUE]
    ELSE [g |-> g, ret |-> FALSE]

\* DirectedGraph::removeVertex
removeVertex(g, u) ==
    IF Owns(g, u)
    THEN LET e == EdgesErase(g.m_edges, u)
         IN  [g |-> [m_vertexCounter |-> g.m_vertexCounter,
                     m_vertices |-> [k \in DOMAIN g.m_vertices \ {u} |-> g.m_vertices[k]],
                     m_edges |-> [k \in DOMAIN e |-> e[k] \ {u}]],
              ret |-> TRUE]
    ELSE [g |-> g, ret |-> FALSE]

\* removeEdge that clears the successor set of u
removeEdge_Clear(g, u, v) ==
    IF Owns(g, u) /\ Owns(g, v)
    THEN LET e == EdgesIndex(g.m_edges, u)
         IN  IF v \in e[u]
             THEN [g |-> [g EXCEPT !.m_edges = [e EXCEPT ![u] = {}]], ret |-> TRUE]
             ELSE [g |-> [g EXCEPT !.m_edges = e], ret |-> FALSE]
    ELSE [g |-> g, ret |-> FALSE]

\* removeEdge that reports true and leaves the edge in the set
removeEdge_NoErase(g, u, v) ==
    IF Owns(g, u) /\ Owns(g, v)
    THEN LET e == EdgesIndex(g.m_edges, u)
         IN  [g |-> [g EXCEPT !.m_edges = e], ret |-> v \in e[u]]
    ELSE [g |-> g, ret |-> FALSE]

\* DirectedGraph::removeEdge
removeEdge(g, u, v) ==
    IF Owns(g, u) /\ Owns(g, v)
    THEN LET e == EdgesIndex(g.m_edges, u)
         IN  IF v \in e[u]
             THEN [g |-> [g EXCEPT !.m_edges = [e EXCEPT ![u] = @ \ {v}]], ret |-> TRUE]
             ELSE [g |-> [g EXCEPT !.m_edges = e], ret |-> FALSE]
    ELSE [g |-> g, ret |-> FALSE]

\* DirectedGraph::getVertices (non-const): kvPair.second.get() of every entry
getVertices(g, o) ==
    LET keys == Iterate(DOMAIN g.m_vertices, o)
    IN  [i \in 1 .. Len(keys) |-> g.m_vertices[keys[i]].get]

\* DirectedGraph::getVertices const: kvPair.first of every entry
getVerticesConst(g, o) == Iterate(DOMAIN g.m_vertices, o)

\* DirectedGraph::getSuccessors (non-const): operator[] may add an entry
getSuccessors(g, u, o) ==
    LET e == EdgesIndex(g.m_edges, u)
    IN  [g |-> [g EXCEPT !.m_edges = e], ret |-> Iterate(e[u], o)]

\* DirectedGraph::getSuccessors const
getSuccessorsConst(g, u, o) ==
    IF u \in DOMAIN g.m_edges THEN Iterate(g.m_edges[u], o) ELSE << >>

RECURSIVE SortInsert(_, _, _)
\* place address a into the id-sorted sequence s
SortInsert(g, s, a) ==
    IF s = << >> THEN << a >>
    ELSE IF getID(g, a) < getID(g, Head(s)) THEN << a >> \o s
    ELSE << Head(s) >> \o SortInsert(g, Tail(s), a)

\* toSortedVertices without the call of std::sort
toSortedVertices_Unsorted(g, s) == s

RECURSIVE toSortedVertices(_, _)
\* toSortedVertices: std::sort with the comparator lhs->getID() < rhs->getID()
toSortedVertices(g, s) ==
    IF s = << >> THEN << >>
    ELSE SortInsert(g, toSortedVertices(g, Tail(s)), Head(s))

RECURSIVE VertexLines(_, _)
\* toString, first loop: one line per sorted vertex
VertexLines(g, s) ==
    IF s = << >> THEN << >>
    ELSE << "    " \o Vertex_toString(getID(g, Head(s))) >> \o VertexLines(g, Tail(s))

RECURSIVE SuccessorLines_Twice(_, _, _)
\* the inner loop with the statement that appends the line written twice
SuccessorLines_Twice(g, u, s) ==
    IF s = << >> THEN << >>
    ELSE LET line == "    " \o Vertex_toString(getID(g, u)) \o " -> "
                            \o Vertex_toString(getID(g, Head(s)))
         IN  << line, line >> \o SuccessorLines_Twice(g, u, Tail(s))

RECURSIVE SuccessorLines_Swapped(_, _, _)
\* the inner loop writing the successor in front of the arrow
SuccessorLines_Swapped(g, u, s) ==
    IF s = << >> THEN << >>
    ELSE << "    " \o Vertex_toString(getID(g, Head(s))) \o " -> "
                   \o Vertex_toString(getID(g, u)) >>
         \o SuccessorLines_Swapped(g, u, Tail(s))

RECURSIVE SuccessorLines(_, _, _)
\* toString, inner loop: one line per sorted successor of u
SuccessorLines(g, u, s) ==
    IF s = << >> THEN << >>
    ELSE << "    " \o Vertex_toString(getID(g, u)) \o " -> "
                   \o Vertex_toString(getID(g, Head(s))) >>
         \o SuccessorLines(g, u, Tail(s))

RECURSIVE EdgeLines(_, _, _)
\* toString, second loop over the sorted vertices
EdgeLines(g, s, o) ==
    IF s = << >> THEN << >>
    ELSE (IF Head(s) \in DOMAIN g.m_edges
          THEN SuccessorLines(g, Head(s),
                              toSortedVertices(g, Iterate(g.m_edges[Head(s)], o)))
          ELSE << >>)
         \o EdgeLines(g, Tail(s), o)

\* the lines DirectedGraph::toString appends, in order
toStringLines(g, o) ==
    LET sortedVertices == toSortedVertices(g, getVerticesConst(g, o))
    IN  << "DirectedGraph:", "  vertices:" >> \o VertexLines(g, sortedVertices)
        \o << "  edges:" >> \o EdgeLines(g, sortedVertices, o)

RECURSIVE Join(_)
Join(lines) == IF lines = << >> THEN "" ELSE Head(lines) \o "\n" \o Join(Tail(lines))

\* DirectedGraph::toString
toString(g, o) == Join(toStringLines(g, o))

\* ------------------------------------------------------------------- state
VARIABLES
    graph,      \* the DirectedGraph under test
    vs,         \* the handles addVertex returned, in call order (main.cpp: vs)
    ids,        \* getID() of each returned vertex, read when it was returned
    pc          \* "running", or "aborted" once an assert has failed

vars == << graph, vs, ids, pc >>

\* handle number k of the caller: 0 is the caller's own Vertex object
Handles == 0 .. Len(vs)
Addr(k) == IF k = 0 THEN ForeignAddr ELSE vs[k]

Init ==
    /\ graph = DirectedGraph
    /\ vs = << >>
    /\ ids = << >>
    /\ pc = "running"

AddVertex ==
    /\ pc = "running"
    /\ graph.m_vertexCounter < MaxVertices
    /\ \E p \in HeapAddr \ DOMAIN graph.m_vertices :
          LET r == addVertex(graph, p)
          IN  /\ graph' = r.g
              /\ vs' = Append(vs, r.ret)
              /\ ids' = Append(ids, getID(r.g, r.ret))
    /\ UNCHANGED pc

AddEdge ==
    /\ pc = "running"
    /\ \E u, v \in Handles :
          LET r == addEdge(graph, Addr(u), Addr(v))
          IN  /\ graph' = r.g
              /\ pc' = IF r.abort THEN "aborted" ELSE "running"
    /\ UNCHANGED << vs, ids >>

RemoveVertex ==
    /\ pc = "running"
    /\ \E u \in Handles : graph' = removeVertex(graph, Addr(u)).g
    /\ UNCHANGED << vs, ids, pc >>

RemoveEdge ==
    /\ pc = "running"
    /\ \E u, v \in Handles : graph' = removeEdge(graph, Addr(u), Addr(v)).g
    /\ UNCHANGED << vs, ids, pc >>

\* a call of the non-const getSuccessors: the vector it returns is
\* getSuccessors(graph, Addr(u), o).ret, the entry it may add stays
GetSuccessors ==
    /\ pc = "running"
    /\ \E u \in Handles, o \in HashOrders : graph' = getSuccessors(graph, Addr(u), o).g
    /\ UNCHANGED << vs, ids, pc >>

\* the const member functions (getVertices, getSuccessors const, toString)
\* return getVertices(graph, o), getSuccessorsConst(graph, Addr(u), o) and
\* toString(graph, o) and leave every member as it is
GetVertices ==
    /\ pc = "running"
    /\ UNCHANGED vars

GetSuccessorsConst ==
    /\ pc = "running"
    /\ UNCHANGED vars

ToStringCall ==
    /\ pc = "running"
    /\ UNCHANGED vars

Next ==
    \/ AddVertex
    \/ AddEdge
    \/ RemoveVertex
    \/ RemoveEdge
    \/ GetVertices
    \/ GetSuccessors
    \/ GetSuccessorsConst
    \/ ToStringCall

Spec == Init /\ [][Next]_vars

TypeOK ==
    /\ graph.m_vertexCounter \in 0 .. MaxVertices
    /\ DOMAIN graph.m_vertices \subseteq HeapAddr
    /\ \A k \in DOMAIN graph.m_vertices :
          graph.m_vertices[k] \in [get : HeapAddr, m_id : 0 .. MaxVertices - 1]
    /\ DOMAIN graph.m_edges \subseteq AllAddr
    /\ \A k \in DOMAIN graph.m_edges : graph.m_edges[k] \subseteq AllAddr
    /\ pc \in {"running", "aborted"}

\* ------------------------------------------------------------------- views
\* handle k still refers to the vertex it was returned for
Live(k) ==
    /\ k \in 1 .. Len(vs)
    /\ Owns(graph, vs[k])
    /\ graph.m_vertices[vs[k]].m_id = ids[k]

VertexIds(g) == {g.m_vertices[a].m_id : a \in DOMAIN g.m_vertices}
Edges(g) == {e \in (DOMAIN g.m_edges) \X AllAddr : e[2] \in g.m_edges[e[1]]}
EdgeIds(g) == {<< getID(g, e[1]), getID(g, e[2]) >> : e \in Edges(g)}

\* nothing a caller can observe tells g from h
SameGraph(g, h) ==
    /\ g.m_vertices = h.m_vertices
    /\ Edges(g) = Edges(h)
    /\ g.m_vertexCounter = h.m_vertexCounter
    /\ \A o \in HashOrders : toString(g, o) = toString(h, o)

NoDuplicates(s) == \A i, j \in DOMAIN s : i /= j => s[i] /= s[j]
Count(s, x) == Cardinality({i \in DOMAIN s : s[i] = x})
EdgeLine(i, j) == "    v" \o to_string(i) \o " -> v" \o to_string(j)

\* ------------------------------------------------------------------ claims
\* C1: the k-th vertex addVertex returns has id k - 1, whatever was removed
\* before it, so ids are distinct, increase from 0 and are never used again;
\* the counter they are taken from never decreases.
C1_IdsIncreaseFromZero ==
    /\ [](\A k \in 1 .. Len(ids) : ids[k] = k - 1)
    /\ [][graph'.m_vertexCounter >= graph.m_vertexCounter]_vars

\* the last addVertex followed a removal and was given the freed storage
C1_Witness ==
    /\ Len(ids) = MaxVertices
    /\ Cardinality(DOMAIN graph.m_vertices) < Len(ids)
    /\ \E i, j \in 1 .. Len(vs) : i < j /\ vs[i] = vs[j] /\ Live(j)

\* C2: addEdge on two owned vertices returns without aborting; it returns
\* true and inserts exactly the edge u -> v when the edge was missing, returns
\* false and changes nothing when it was there; calling it a second time
\* returns false and leaves the graph as the first call left it.
C2_AddEdge ==
    \A u, v \in 1 .. Len(vs) :
        (Live(u) /\ Live(v)) =>
            LET e  == << vs[u], vs[v] >>
                r  == addEdge(graph, vs[u], vs[v])
                r2 == addEdge(r.g, vs[u], vs[v])
            IN  /\ ~r.abort
                /\ r.ret = (e \notin Edges(graph))
                /\ Edges(r.g) = Edges(graph) \cup {e}
                /\ r.g.m_vertices = graph.m_vertices
                /\ r.g.m_vertexCounter = graph.m_vertexCounter
                /\ e \in Edges(graph) => r.g = graph
                /\ ~r2.abort /\ r2.ret = FALSE /\ r2.g = r.g

\* an edge between two different vertices is there, and adding it reports false
C2_Witness ==
    \E u, v \in 1 .. Len(vs) :
        /\ u /= v /\ Live(u) /\ Live(v)
        /\ << vs[u], vs[v] >> \in Edges(graph)
        /\ << vs[v], vs[u] >> \notin Edges(graph)
        /\ addEdge(graph, vs[u], vs[v]).ret = FALSE
        /\ addEdge(graph, vs[v], vs[u]).ret = TRUE

\* C3: removeVertex of an owned vertex returns true; afterwards the vertex is
\* not among the vertices, no successor set holds it, and it has no successors.
C3_RemovalCascade ==
    \A u \in 1 .. Len(vs) :
        Live(u) =>
            LET r == removeVertex(graph, vs[u])
            IN  /\ r.ret = TRUE
                /\ ids[u] \notin VertexIds(r.g)
                /\ \A e \in Edges(r.g) : e[1] /= vs[u] /\ e[2] /= vs[u]
                /\ \A o \in HashOrders :
                      /\ vs[u] \notin Range(getVertices(r.g, o))
                      /\ vs[u] \notin Range(getVerticesConst(r.g, o))
                      /\ \A a \in AllAddr : vs[u] \notin Range(getSuccessorsConst(r.g, a, o))
                      /\ getSuccessorsConst(r.g, vs[u], o) = << >>
                      /\ getSuccessors(r.g, vs[u], o).ret = << >>

\* the vertex to remove has an edge to, an edge from, another vertex, which
\* stays and has an edge to itself
C3_Witness ==
    \E u, w \in 1 .. Len(vs) :
        /\ u /= w /\ Live(u) /\ Live(w)
        /\ << vs[u], vs[w] >> \in Edges(graph)
        /\ << vs[w], vs[u] >> \in Edges(graph)
        /\ Edges(removeVertex(graph, vs[u]).g) = {<< vs[w], vs[w] >>}

\* C4: every member of a successor set is an owned vertex, and every key of
\* the adjacency map is an owned vertex or has an empty successor set.
C4_AdjacencyRefersToVertices ==
    \A k \in DOMAIN graph.m_edges :
        /\ graph.m_edges[k] \subseteq DOMAIN graph.m_vertices
        /\ (k \in DOMAIN graph.m_vertices \/ graph.m_edges[k] = {})

\* getSuccessors was called with the handle of a removed vertex: the map has
\* a key that is no vertex, next to the edges of the vertices that are left
C4_Witness ==
    \E k \in 1 .. Len(vs) :
        /\ ~Owns(graph, vs[k])
        /\ vs[k] \in DOMAIN graph.m_edges
        /\ Edges(graph) /= {}

\* C5: removeVertex with a handle whose vertex is not in the graph (never
\* added, or removed already) returns false and changes nothing.
\* Violated: the handle of a removed vertex can hold the address of a vertex
\* added later, and that vertex is removed.
C5_RemoveAbsentVertex ==
    \A u \in Handles :
        ~Live(u) =>
            LET r == removeVertex(graph, Addr(u))
            IN  r.ret = FALSE /\ SameGraph(graph, r.g)

\* what the code does keep: a handle whose address is no key of m_vertices
C5_RemoveUnownedAddress ==
    \A u \in Handles :
        ~Owns(graph, Addr(u)) =>
            LET r == removeVertex(graph, Addr(u))
            IN  r.ret = FALSE /\ r.g = graph

\* C6: removeEdge returns false and changes nothing when u or v is not in the
\* graph or the edge u -> v is missing.
\* Violated: the handles of removed vertices can hold the address of a vertex
\* added later, and an edge of that vertex is removed.
C6_RemoveAbsentEdge ==
    \A u, v \in Handles :
        (~Live(u) \/ ~Live(v) \/ << Addr(u), Addr(v) >> \notin Edges(graph)) =>
            LET r == removeEdge(graph, Addr(u), Addr(v))
            IN  r.ret = FALSE /\ SameGraph(graph, r.g)

\* what the code does keep, in terms of addresses
C6_RemoveEdgeUnownedAddress ==
    \A u, v \in Handles :
        (\/ ~Owns(graph, Addr(u))
         \/ ~Owns(graph, Addr(v))
         \/ << Addr(u), Addr(v) >> \notin Edges(graph)) =>
            LET r == removeEdge(graph, Addr(u), Addr(v))
            IN  r.ret = FALSE /\ SameGraph(graph, r.g)

\* C7: removeEdge of an edge between owned vertices returns true and removes
\* that edge and nothing else: every other edge, the reverse edge v -> u
\* included, every vertex and the counter stay.
C7_RemoveEdgeFrame ==
    \A u, v \in 1 .. Len(vs) :
        (Live(u) /\ Live(v) /\ << vs[u], vs[v] >> \in Edges(graph)) =>
            LET r == removeEdge(graph, vs[u], vs[v])
            IN  /\ r.ret = TRUE
                /\ Edges(r.g) = Edges(graph) \ {<< vs[u], vs[v] >>}
                /\ \A o \in HashOrders :
                      vs[v] \notin Range(getSuccessorsConst(r.g, vs[u], o))
                /\ r.g.m_vertices = graph.m_vertices
                /\ r.g.m_vertexCounter = graph.m_vertexCounter

\* the edge to remove has a reverse edge and shares its source with a loop
C7_Witness ==
    \E u, v \in 1 .. Len(vs) :
        /\ u /= v /\ Live(u) /\ Live(v)
        /\ {<< vs[u], vs[v] >>, << vs[v], vs[u] >>, << vs[u], vs[u] >>} \subseteq Edges(graph)
        /\ removeEdge(graph, vs[u], vs[v]).ret = TRUE

\* C8: the graph is simple: no vector of successors holds a vertex twice and
\* toString writes no line twice, so no edge line twice.
C8_SimpleGraph ==
    \A o \in HashOrders :
        /\ NoDuplicates(toStringLines(graph, o))
        /\ \A a \in AllAddr :
              /\ NoDuplicates(getSuccessorsConst(graph, a, o))
              /\ NoDuplicates(getSuccessors(graph, a, o).ret)

\* a vertex has two successors and both edges were asked for again
C8_Witness ==
    \E u, v \in 1 .. Len(vs) :
        /\ u /= v /\ Live(u) /\ Live(v)
        /\ vs[u] \in DOMAIN graph.m_edges
        /\ graph.m_edges[vs[u]] = {vs[u], vs[v]}
        /\ addEdge(graph, vs[u], vs[v]).ret = FALSE
        /\ addEdge(graph, vs[u], vs[u]).ret = FALSE

\* C9: addEdge(u, u) on an owned vertex returns true when the loop is missing
\* and false when it is there, so it succeeds once; afterwards u is a successor
\* of itself and toString has exactly one line "v<id> -> v<id>" for it.
C9_SelfLoop ==
    \A u \in 1 .. Len(vs) :
        Live(u) =>
            LET r  == addEdge(graph, vs[u], vs[u])
                r2 == addEdge(r.g, vs[u], vs[u])
            IN  /\ ~r.abort
                /\ r.ret = (<< vs[u], vs[u] >> \notin Edges(graph))
                /\ ~r2.abort /\ r2.ret = FALSE
                /\ \A o \in HashOrders :
                      /\ vs[u] \in Range(getSuccessorsConst(r.g, vs[u], o))
                      /\ Count(toStringLines(r.g, o), EdgeLine(ids[u], ids[u])) = 1

\* one vertex has its loop, the other does not have it yet
C9_Witness ==
    \E u, w \in 1 .. Len(vs) :
        /\ Live(u) /\ Live(w)
        /\ << vs[u], vs[u] >> \in Edges(graph)
        /\ << vs[w], vs[w] >> \notin Edges(graph)
        /\ addEdge(graph, vs[u], vs[u]).ret = FALSE
        /\ addEdge(graph, vs[w], vs[w]).ret = TRUE

\* the graph that holds the ids V and the edges E and nothing else: the
\* vertex with the k-th smallest id is stored at address k
Rank(V, i) == Cardinality({j \in V : j <= i})
CanonicalGraph(V, E) ==
    [m_vertexCounter |-> 0,
     m_vertices |-> [a \in 1 .. Cardinality(V) |->
                       [get |-> a, m_id |-> CHOOSE i \in V : Rank(V, i) = a]],
     m_edges |-> [a \in {Rank(V, e[1]) : e \in E} |->
                    {Rank(V, e[2]) : e \in {d \in E : Rank(V, d[1]) = a}}]]
IdentityOrder == [i \in 1 .. NumAddr |-> i]

\* C10: toString is a function of the set of ids and the set of edges: under
\* every iteration order it returns what it returns for the graph rebuilt
\* from these two sets alone, so the addresses, the order of the calls that
\* built the graph, the counter and the empty adjacency entries do not show.
C10_ToStringDeterministic ==
    LET rebuilt == toString(CanonicalGraph(VertexIds(graph), EdgeIds(graph)), IdentityOrder)
    IN  \A o \in HashOrders : toString(graph, o) = rebuilt

\* two vertices and two edges, stored at other addresses and with other
\* adjacency entries than the rebuilt graph has
C10_Witness ==
    LET c == CanonicalGraph(VertexIds(graph), EdgeIds(graph))
    IN  /\ Cardinality(VertexIds(graph)) = 2
        /\ Cardinality(EdgeIds(graph)) = 2
        /\ graph.m_vertices /= c.m_vertices
        /\ DOMAIN graph.m_edges /= DOMAIN c.m_edges
        /\ graph.m_vertexCounter /= c.m_vertexCounter

\* the ids of S in ascending order
RECURSIVE SortedIds(_)
SortedIds(S) ==
    IF S = {} THEN << >>
    ELSE LET m == CHOOSE x \in S : \A y \in S : x <= y
         IN  << m >> \o SortedIds(S \ {m})

\* one edge line per target in js, all from source i
RECURSIVE LinesFrom(_, _)
LinesFrom(i, js) ==
    IF js = << >> THEN << >>
    ELSE << EdgeLine(i, Head(js)) >> \o LinesFrom(i, Tail(js))

\* the edge lines of the sources in is, each with its targets ascending
RECURSIVE LinesOfSources(_, _)
LinesOfSources(is, E) ==
    IF is = << >> THEN << >>
    ELSE LinesFrom(Head(is), SortedIds({e[2] : e \in {d \in E : d[1] = Head(is)}}))
         \o LinesOfSources(Tail(is), E)

\* the rendering the format asks for, of the ids V and the edges E
ExpectedLines(V, E) ==
    << "DirectedGraph:", "  vertices:" >>
    \o [k \in 1 .. Cardinality(V) |-> "    v" \o to_string(SortedIds(V)[k])]
    \o << "  edges:" >>
    \o LinesOfSources(SortedIds(V), E)

\* main.cpp, test_DirectedGraph_setup: four vertices, five addEdge calls
ExampleAddr == 1 .. 4
ExampleOrders == {o \in [1 .. 4 -> ExampleAddr] :
                    \A i, j \in 1 .. 4 : i /= j => o[i] /= o[j]}
ExampleVertices ==
    addVertex(addVertex(addVertex(addVertex(DirectedGraph, 1).g, 2).g, 3).g, 4).g
ExampleEdges ==
    addEdge(addEdge(addEdge(addEdge(ExampleVertices, 1, 1).g, 1, 2).g, 1, 4).g, 3, 4)
ExampleRepeated == addEdge(ExampleEdges.g, 3, 4)
ExampleExpected ==
    "DirectedGraph:\n  vertices:\n    v0\n    v1\n    v2\n    v3\n  edges:\n"
    \o "    v0 -> v0\n    v0 -> v1\n    v0 -> v3\n    v2 -> v3\n"
ExampleHolds ==
    /\ ExampleEdges.ret = TRUE
    /\ ExampleRepeated.ret = FALSE
    /\ \A o \in ExampleOrders : toString(ExampleRepeated.g, o) = ExampleExpected

\* C11: toString writes the header, every owned vertex once in ascending id
\* order under "  vertices:", then under "  edges:" every edge once as
\* "v<u> -> v<v>", by source id and within a source by target id ascending;
\* a vertex without outgoing edges has no edge line.  The graph of main.cpp
\* renders as the string main.cpp expects.
C11_ToStringFormat ==
    LET expected == ExpectedLines(VertexIds(graph), EdgeIds(graph))
    IN  /\ \A o \in HashOrders : toStringLines(graph, o) = expected
        /\ ExampleHolds

\* the vertex with the larger id is stored at the smaller address and has
\* edges to itself and to the other vertex, which has an adjacency entry and
\* no outgoing edge
C11_Witness ==
    \E u, w \in 1 .. Len(vs) :
        /\ Live(u) /\ Live(w)
        /\ ids[u] > ids[w] /\ vs[u] < vs[w]
        /\ vs[u] \in DOMAIN graph.m_edges /\ graph.m_edges[vs[u]] = {vs[u], vs[w]}
        /\ vs[w] \in DOMAIN graph.m_edges /\ graph.m_edges[vs[w]] = {}

\* the successors of the vertex handle u was returned for
SuccessorsOf(u) ==
    IF Live(u) THEN {a \in AllAddr : << vs[u], a >> \in Edges(graph)} ELSE {}

\* C12: both overloads of getSuccessors return exactly the vertices v with an
\* edge u -> v, and an empty vector when u has no outgoing edge or is not in
\* the graph, a removed vertex included.
\* Violated: the handle of a removed vertex can hold the address of a vertex
\* added later, and the successors of that vertex are returned.
C12_GetSuccessors ==
    \A u \in Handles, o \in HashOrders :
        LET m == getSuccessors(graph, Addr(u), o).ret
            c == getSuccessorsConst(graph, Addr(u), o)
        IN  /\ Range(m) = SuccessorsOf(u)
            /\ Range(c) = SuccessorsOf(u)
            /\ ~Live(u) => (m = << >> /\ c = << >>)

\* what the code does keep: the edges of the address the handle holds, none
\* when that address is no key of m_vertices
C12_GetSuccessorsByAddress ==
    \A u \in Handles, o \in HashOrders :
        LET m == getSuccessors(graph, Addr(u), o).ret
            c == getSuccessorsConst(graph, Addr(u), o)
        IN  /\ Range(m) = {a \in AllAddr : << Addr(u), a >> \in Edges(graph)}
            /\ Range(c) = Range(m)
            /\ Len(m) = Cardinality(Range(m)) /\ Len(c) = Len(m)
            /\ ~Owns(graph, Addr(u)) => (m = << >> /\ c = << >>)

\* the vertices addVertex returned and no removeVertex has removed
OwnedHandles == {vs[k] : k \in {j \in 1 .. Len(vs) : Live(j)}}

\* C13: both overloads of getVertices return, each once, exactly the vertices
\* addVertex returned and no successful removeVertex has removed since: the
\* empty graph has none, addVertex adds the vertex it returns, a removeVertex
\* that returns true takes out the vertex it was given, and a removeVertex
\* that returns false, addEdge, removeEdge and getSuccessors leave the set.
C13_GetVertices ==
    /\ \A o \in HashOrders :
          LET m == getVertices(graph, o)
              c == getVerticesConst(graph, o)
          IN  /\ Range(m) = OwnedHandles /\ Range(c) = OwnedHandles
              /\ NoDuplicates(m) /\ NoDuplicates(c)
              /\ \A p \in HeapAddr \ DOMAIN graph.m_vertices :
                    LET r == addVertex(graph, p)
                    IN  /\ Range(getVertices(r.g, o)) = Range(m) \cup {r.ret}
                        /\ Range(getVerticesConst(r.g, o)) = Range(c) \cup {r.ret}
                        /\ r.ret \notin Range(m)
              /\ \A u \in Handles :
                    LET r == removeVertex(graph, Addr(u))
                        left == IF r.ret THEN Range(m) \ {Addr(u)} ELSE Range(m)
                    IN  /\ Range(getVertices(r.g, o)) = left
                        /\ Range(getVerticesConst(r.g, o)) = left
    /\ \A o \in HashOrders : getVertices(DirectedGraph, o) = << >>
    /\ \A u, v \in Handles :
          /\ addEdge(graph, Addr(u), Addr(v)).g.m_vertices = graph.m_vertices
          /\ removeEdge(graph, Addr(u), Addr(v)).g.m_vertices = graph.m_vertices
          /\ getSuccessors(graph, Addr(u), IdentityOrder).g.m_vertices = graph.m_vertices

\* one vertex was removed and its handle kept, another vertex is left
C13_Witness ==
    \E k, j \in 1 .. Len(vs) :
        /\ Live(k)
        /\ ~Owns(graph, vs[j])
        /\ \A o \in HashOrders : getVertices(graph, o) = << vs[k] >>
        /\ removeVertex(graph, vs[j]).ret = FALSE
        /\ removeVertex(graph, vs[k]).ret = TRUE

\* C14: addEdge with a handle whose vertex is not in the graph fails the
\* assert instead of returning, before it has changed anything: no edge and
\* no adjacency entry is added.
\* Violated: the handle of a removed vertex can hold the address of a vertex
\* added later; both asserts pass and the edge is inserted.
C14_AddEdgeFailsFast ==
    \A u, v \in Handles :
        (~Live(u) \/ ~Live(v)) =>
            LET r == addEdge(graph, Addr(u), Addr(v))
            IN  r.abort /\ r.g = graph

\* what the code does keep: an address that is no key of m_vertices fails an
\* assert with every member as it was, and the program has ended
C14_AddEdgeUnownedAddress ==
    /\ \A u, v \in Handles :
          (~Owns(graph, Addr(u)) \/ ~Owns(graph, Addr(v))) =>
              LET r == addEdge(graph, Addr(u), Addr(v))
              IN  /\ r.abort
                  /\ r.g = graph
                  /\ DOMAIN r.g.m_edges = DOMAIN graph.m_edges
    /\ [][pc = "aborted" => UNCHANGED vars]_vars

\* C15: a handle whose vertex was removed is not treated as owned again,
\* whatever addVertex calls follow: removeVertex(u), removeEdge(u, x) and
\* removeEdge(x, u) return false and getSuccessors(u) is empty.
\* Violated: vertices are keyed by their storage address, and a vertex added
\* later can be stored at the address the handle holds.
C15_StaleHandleNotOwned ==
    \A u \in 1 .. Len(vs) :
        ~Live(u) =>
            /\ removeVertex(graph, vs[u]).ret = FALSE
            /\ \A x \in Handles :
                  /\ removeEdge(graph, vs[u], Addr(x)).ret = FALSE
                  /\ removeEdge(graph, Addr(x), vs[u]).ret = FALSE
            /\ \A o \in HashOrders :
                  /\ getSuccessors(graph, vs[u], o).ret = << >>
                  /\ getSuccessorsConst(graph, vs[u], o) = << >>

\* what the code does keep: the same, as long as no vertex is stored at the
\* address the handle holds
C15_StaleAddressNotOwned ==
    \A u \in 1 .. Len(vs) :
        ~Owns(graph, vs[u]) =>
            /\ removeVertex(graph, vs[u]).ret = FALSE
            /\ \A x \in Handles :
                  /\ removeEdge(graph, vs[u], Addr(x)).ret = FALSE
                  /\ removeEdge(graph, Addr(x), vs[u]).ret = FALSE
            /\ \A o \in HashOrders :
                  /\ getSuccessors(graph, vs[u], o).ret = << >>
                  /\ getSuccessorsConst(graph, vs[u], o) = << >>

\* C16: a removeVertex that returns true removes the vertex it was given and
\* the edges from and to it, nothing else: every other vertex stays owned
\* with its id, every edge between other vertices stays, and the counter is
\* as it was.
C16_RemoveVertexFrame ==
    \A u \in Handles :
        LET r == removeVertex(graph, Addr(u))
        IN  r.ret =>
              /\ DOMAIN r.g.m_vertices = DOMAIN graph.m_vertices \ {Addr(u)}
              /\ \A a \in DOMAIN r.g.m_vertices :
                    /\ Owns(r.g, a)
                    /\ getID(r.g, a) = getID(graph, a)
                    /\ r.g.m_vertices[a] = graph.m_vertices[a]
              /\ Edges(r.g) = {e \in Edges(graph) : e[1] /= Addr(u) /\ e[2] /= Addr(u)}
              /\ r.g.m_vertexCounter = graph.m_vertexCounter

\* the vertex that stays has an edge to itself and an edge from the vertex
\* that goes
C16_Witness ==
    \E u, w \in 1 .. Len(vs) :
        /\ u /= w /\ Live(u) /\ Live(w)
        /\ {<< vs[w], vs[w] >>, << vs[u], vs[w] >>, << vs[u], vs[u] >>} \subseteq Edges(graph)
        /\ LET r == removeVertex(graph, vs[u])
           IN  /\ r.ret = TRUE
               /\ Edges(r.g) = {<< vs[w], vs[w] >>}
               /\ VertexIds(r.g) = {ids[w]}

\* C17: the counter is the number of addVertex calls made so far, every owned
\* vertex has an id below it, no two owned vertices have the same id, and
\* only addVertex changes it: removeVertex, addEdge, removeEdge and the
\* queries leave it.
C17_CounterCountsAddVertex ==
    /\ [](/\ graph.m_vertexCounter = Len(vs)
          /\ \A a \in DOMAIN graph.m_vertices :
                getID(graph, a) \in 0 .. graph.m_vertexCounter - 1
          /\ \A a, b \in DOMAIN graph.m_vertices :
                a /= b => getID(graph, a) /= getID(graph, b)
          /\ \A u, v \in Handles :
                /\ removeVertex(graph, Addr(u)).g.m_vertexCounter = graph.m_vertexCounter
                /\ addEdge(graph, Addr(u), Addr(v)).g.m_vertexCounter = graph.m_vertexCounter
                /\ removeEdge(graph, Addr(u), Addr(v)).g.m_vertexCounter = graph.m_vertexCounter
                /\ getSuccessors(graph, Addr(u), IdentityOrder).g.m_vertexCounter
                      = graph.m_vertexCounter)
    /\ [][\/ /\ Len(vs') = Len(vs) + 1
              /\ graph'.m_vertexCounter = graph.m_vertexCounter + 1
           \/ /\ vs' = vs
              /\ graph'.m_vertexCounter = graph.m_vertexCounter]_vars

\* every addVertex call was made, the first vertex was removed, the last has
\* an edge, and a query has left an entry for a removed vertex
C17_Witness ==
    /\ Len(vs) = MaxVertices
    /\ graph.m_vertexCounter = MaxVertices
    /\ VertexIds(graph) = {MaxVertices - 1}
    /\ Edges(graph) /= {}
    /\ \E k \in 1 .. Len(vs) : ~Owns(graph, vs[k]) /\ vs[k] \in DOMAIN graph.m_edges

\* C18: for owned u and v without an edge u -> v, addEdge(u, v) and then
\* removeEdge(u, v) both return true and restore the graph: the vertices,
\* the edges, the counter, what both overloads of getSuccessors return for
\* every handle, and the string toString returns are as before the two calls.
C18_AddThenRemoveEdge ==
    [](\A u, v \in 1 .. Len(vs) :
         (Live(u) /\ Live(v) /\ << vs[u], vs[v] >> \notin Edges(graph)) =>
             LET r1 == addEdge(graph, vs[u], vs[v])
                 r2 == removeEdge(r1.g, vs[u], vs[v])
             IN  /\ ~r1.abort /\ r1.ret = TRUE /\ r2.ret = TRUE
                 /\ r2.g.m_vertices = graph.m_vertices
                 /\ r2.g.m_vertexCounter = graph.m_vertexCounter
                 /\ Edges(r2.g) = Edges(graph)
                 /\ \A o \in HashOrders :
                       /\ toString(r2.g, o) = toString(graph, o)
                       /\ \A a \in AllAddr :
                             /\ getSuccessorsConst(r2.g, a, o) = getSuccessorsConst(graph, a, o)
                             /\ getSuccessors(r2.g, a, o).ret = getSuccessors(graph, a, o).ret)

\* u had no adjacency entry and the two calls leave it an empty one, v has an
\* edge to u: the members differ from before and nothing a caller sees does
C18_Witness ==
    \E u, v \in 1 .. Len(vs) :
        /\ u /= v /\ Live(u) /\ Live(v)
        /\ vs[u] \notin DOMAIN graph.m_edges
        /\ << vs[v], vs[u] >> \in Edges(graph)
        /\ LET r1 == addEdge(graph, vs[u], vs[v])
               r2 == removeEdge(r1.g, vs[u], vs[v])
           IN  /\ r1.ret = TRUE /\ r2.ret = TRUE
               /\ DOMAIN r2.g.m_edges /= DOMAIN graph.m_edges
               /\ Edges(r1.g) /= Edges(graph)
====
